---------------------------- MODULE Spec2Model ----------------------------
(***************************************************************************)
(* A model of the binding / dispatch core of ruma:                         *)
(*   - m.key.verification.start content (construction and serde shape),    *)
(*   - MxcUri (media URI) parsing,                                          *)
(*   - the knock_room request (query, body, authentication),               *)
(*   - m.space.child and poll-response content.                            *)
(* Every operation is a pure transform; the state holds the value the      *)
(* caller currently owns (one call at a time, dropped before the next).    *)
(***************************************************************************)
EXTENDS Integers, Sequences, FiniteSets, TLC

VARIABLES
    pc,         \* which value the caller holds: "idle" or the name of the last call
    sasInit,    \* the MSasV1ContentInit handed to MSasV1Content::new
    sasResult,  \* the Result<MSasV1Content, InvalidInput> of that call
    startJson,  \* received m.key.verification.start content (a JSON object)
    startOut,   \* the Result of deserializing it as StartEventContent
    startSer,   \* the JSON object a StartEventContent serialized to
    mxc,        \* the string a Box<MxcUri> holds (a sequence of characters)
    mxcOut,     \* what the last method called on it returned
    knock,      \* the endpoint, the knock_room Request and the token of an encode call
    knockWire,  \* the Result of encoding it: a wire message or an error
    knockDec,   \* the Result of decoding that wire message as a Request
    childContent, \* a ChildEventContent value a caller built
    childJson,  \* received m.space.child content
    childOut,   \* the Result of deserializing received content
    childSer,   \* the JSON object a ChildEventContent serialized to
    pollNew,    \* the arguments of PollResponseEventContent::new and what it returned
    pollJson,   \* received poll response content: its entries in document order
    pollOut,    \* the Result of deserializing that content
    deviceIn,   \* the string a DeviceId is built from
    deviceId,   \* a DeviceId a caller built
    b64,        \* a Base64 value, its configuration and the bytes it was built from
    b64In,      \* a string handed to Base64::parse
    b64Text,    \* what encode / Serialize returned
    b64Out,     \* what parse / Deserialize returned
    redaction,  \* a RedactionEvent a caller built
    redactionJson, \* the JSON envelope it serialized to
    redactionOut,  \* the Result of deserializing the envelope as AnyMessageEvent
    httpSends,  \* how often the current call handed a request to the transport
    httpTransport, \* what the transport answered
    httpResult  \* what the call returned

sasVars == <<sasInit, sasResult, startJson, startOut, startSer>>
mxcVars == <<mxc, mxcOut>>
knockVars == <<knock, knockWire, knockDec>>
childVars == <<childContent, childJson, childOut, childSer>>
pollVars == <<pollNew, pollJson, pollOut>>
deviceVars == <<deviceIn, deviceId>>
b64Vars == <<b64, b64In, b64Text, b64Out>>
redactionVars == <<redaction, redactionJson, redactionOut>>
httpVars == <<httpSends, httpTransport, httpResult>>
extVars == <<deviceVars, b64Vars, redactionVars, httpVars>>
vars == <<pc, sasVars, mxcVars, knockVars, childVars, pollVars, extVars>>

None == [none |-> TRUE]

\* All sequences over S of length 0..n.
SeqsUpTo(S, n) == UNION {[1..k -> S] : k \in 0..n}

Contains(seq, x) == \E i \in 1..Len(seq) : seq[i] = x

(***************************************************************************)
(* m.key.verification.start: MSasV1Content construction                    *)
(***************************************************************************)

\* Longest algorithm list of an MSasV1ContentInit.
MaxList == 2

\* The enum values of the four algorithm lists (a custom value stands for
\* every string the enum does not name).
Curve25519 == [variant |-> "Curve25519"]
Curve25519HkdfSha256 == [variant |-> "Curve25519HkdfSha256"]
Sha256 == [variant |-> "Sha256"]
HkdfHmacSha256 == [variant |-> "HkdfHmacSha256"]
Decimal == [variant |-> "Decimal"]
Emoji == [variant |-> "Emoji"]
Custom(s) == [variant |-> "_Custom", s |-> s]

KeyAgreementProtocol == {Curve25519, Curve25519HkdfSha256, Custom("x")}
HashAlgorithm == {Sha256, Custom("x")}
MessageAuthenticationCode == {HkdfHmacSha256, Custom("x")}
ShortAuthenticationString == {Decimal, Emoji}

MSasV1ContentInit ==
    [key_agreement_protocols : SeqsUpTo(KeyAgreementProtocol, MaxList),
     hashes : SeqsUpTo(HashAlgorithm, MaxList),
     message_authentication_codes : SeqsUpTo(MessageAuthenticationCode, MaxList),
     short_authentication_string : SeqsUpTo(ShortAuthenticationString, MaxList)]

\* The messages of the four InvalidInput errors, word by word (the back quotes
\* around the names are left out).
MsgKeyAgreement ==
    <<"key_agreement_protocols", "must", "contain", "at", "least",
      "KeyAgreementProtocol::Curve25519", "or",
      "KeyAgreementProtocol::Curve25519HkdfSha256">>
MsgHashes ==
    <<"hashes", "must", "contain", "at", "least", "HashAlgorithm::Sha256">>
MsgMacs ==
    <<"message_authentication_codes", "must", "contain", "at", "least",
      "MessageAuthenticationCode::HkdfHmacSha256">>
MsgSas ==
    <<"short_authentication_string", "must", "contain", "at", "least",
      "ShortAuthenticationString::Decimal">>

InvalidInput(msg) == [ok |-> FALSE, err |-> "InvalidInput", msg |-> msg]
Ok(v) == [ok |-> TRUE, val |-> v]

\* The check of the first list, and what a forgotten alternative would do.
HasKeyAgreementOnlyCurve(init) == Contains(init.key_agreement_protocols, Curve25519)
HasKeyAgreement(init) ==
    \/ Contains(init.key_agreement_protocols, Curve25519)
    \/ Contains(init.key_agreement_protocols, Curve25519HkdfSha256)

\* impl TryFrom<MSasV1ContentInit> for MSasV1Content, and before it the same
\* checks made from the last field to the first.
try_from_backwards(init) ==
    IF ~Contains(init.short_authentication_string, Decimal) THEN InvalidInput(MsgSas)
    ELSE IF ~Contains(init.message_authentication_codes, HkdfHmacSha256)
        THEN InvalidInput(MsgMacs)
    ELSE IF ~Contains(init.hashes, Sha256) THEN InvalidInput(MsgHashes)
    ELSE IF ~HasKeyAgreement(init) THEN InvalidInput(MsgKeyAgreement)
    ELSE Ok([key_agreement_protocols |-> init.key_agreement_protocols,
             hashes |-> init.hashes,
             message_authentication_codes |-> init.message_authentication_codes,
             short_authentication_string |-> init.short_authentication_string])
try_from(init) ==
    IF ~HasKeyAgreement(init) THEN InvalidInput(MsgKeyAgreement)
    ELSE IF ~Contains(init.hashes, Sha256) THEN InvalidInput(MsgHashes)
    ELSE IF ~Contains(init.message_authentication_codes, HkdfHmacSha256)
        THEN InvalidInput(MsgMacs)
    ELSE IF ~Contains(init.short_authentication_string, Decimal)
        THEN InvalidInput(MsgSas)
    ELSE Ok([key_agreement_protocols |-> init.key_agreement_protocols,
             hashes |-> init.hashes,
             message_authentication_codes |-> init.message_authentication_codes,
             short_authentication_string |-> init.short_authentication_string])

\* MSasV1Content::new
MSasV1ContentNew(options) == try_from(options)

(***************************************************************************)
(* m.key.verification.start: the serde shape of the content               *)
(***************************************************************************)

\* Longest algorithm array of a received content object.
MaxJsonList == 1

\* JSON values; an object is a function from its keys to JSON values.
JStr(s) == [t |-> "str", s |-> s]
JNum(n) == [t |-> "num", n |-> n]
JBool(b) == [t |-> "bool", b |-> b]
JArr(seq) == [t |-> "arr", a |-> seq]
JNull == [t |-> "null"]
Absent == [t |-> "absent"]
EmptyObject == [k \in {} |-> JNull]

\* The object holding the keys of opts that are not Absent.
ObjectOf(opts) == [k \in {x \in DOMAIN opts : opts[x] # Absent} |-> opts[k]]
Without(obj, keys) == [k \in (DOMAIN obj) \ keys |-> obj[k]]
Has(obj, k) == k \in DOMAIN obj

DeError(what, field) == [ok |-> FALSE, err |-> what, field |-> field]

\* The wire names of the enum values (the StringEnum conversions): a string the
\* enum does not name becomes its custom value, and back.
KeyAgreementProtocolFrom(s) ==
    IF s = "curve25519" THEN Curve25519
    ELSE IF s = "curve25519-hkdf-sha256" THEN Curve25519HkdfSha256
    ELSE Custom(s)
HashAlgorithmFrom(s) == IF s = "sha256" THEN Sha256 ELSE Custom(s)
MessageAuthenticationCodeFrom(s) ==
    IF s = "hkdf-hmac-sha256" THEN HkdfHmacSha256 ELSE Custom(s)
ShortAuthenticationStringFrom(s) ==
    IF s = "decimal" THEN Decimal ELSE IF s = "emoji" THEN Emoji ELSE Custom(s)
AsRefStr(e) ==
    IF e = Curve25519 THEN "curve25519"
    ELSE IF e = Curve25519HkdfSha256 THEN "curve25519-hkdf-sha256"
    ELSE IF e = Sha256 THEN "sha256"
    ELSE IF e = HkdfHmacSha256 THEN "hkdf-hmac-sha256"
    ELSE IF e = Decimal THEN "decimal"
    ELSE IF e = Emoji THEN "emoji"
    ELSE e.s

ListFields ==
    <<"key_agreement_protocols", "hashes", "message_authentication_codes",
      "short_authentication_string">>
FromWire(field, s) ==
    IF field = "key_agreement_protocols" THEN KeyAgreementProtocolFrom(s)
    ELSE IF field = "hashes" THEN HashAlgorithmFrom(s)
    ELSE IF field = "message_authentication_codes" THEN MessageAuthenticationCodeFrom(s)
    ELSE ShortAuthenticationStringFrom(s)

\* Whether a JSON value deserializes as a Vec of a string enum.
IsStrArray(j) == j.t = "arr" /\ \A i \in 1..Len(j.a) : j.a[i].t = "str"
DeVec(field, j) == [i \in 1..Len(j.a) |-> FromWire(field, j.a[i].s)]
SerVec(list) == JArr([i \in 1..Len(list) |-> JStr(AsRefStr(list[i]))])

\* The first of the four fields (in declaration order) the object lacks, 0 if none.
FirstMissing(obj) ==
    IF \A i \in 1..4 : Has(obj, ListFields[i]) THEN 0
    ELSE CHOOSE i \in 1..4 :
        /\ ~Has(obj, ListFields[i])
        /\ \A j \in 1..(i - 1) : Has(obj, ListFields[j])

\* derive(Deserialize) for MSasV1Content: the four lists are required, every other
\* key of the object (the "method" tag among them) is skipped unread.
DeMSasV1Content(obj) ==
    IF \E i \in 1..4 : Has(obj, ListFields[i]) /\ ~IsStrArray(obj[ListFields[i]])
        THEN DeError("invalid type", "list")
    ELSE IF FirstMissing(obj) # 0
        THEN DeError("missing field", ListFields[FirstMissing(obj)])
    ELSE Ok([key_agreement_protocols |->
                 DeVec("key_agreement_protocols", obj.key_agreement_protocols),
             hashes |-> DeVec("hashes", obj.hashes),
             message_authentication_codes |->
                 DeVec("message_authentication_codes", obj.message_authentication_codes),
             short_authentication_string |->
                 DeVec("short_authentication_string", obj.short_authentication_string)])

\* derive(Serialize) for MSasV1Content: the tag, then the four lists.
SerMSasV1Content(c) ==
    [method |-> JStr("m.sas.v1"),
     key_agreement_protocols |-> SerVec(c.key_agreement_protocols),
     hashes |-> SerVec(c.hashes),
     message_authentication_codes |-> SerVec(c.message_authentication_codes),
     short_authentication_string |-> SerVec(c.short_authentication_string)]

\* derive(Deserialize) for CustomContent: method is a required string, every
\* other key goes to the flattened fields.
DeCustomContent(obj) ==
    IF ~Has(obj, "method") THEN DeError("missing field", "method")
    ELSE IF obj["method"].t # "str" THEN DeError("invalid type", "method")
    ELSE Ok([method |-> obj["method"].s, fields |-> Without(obj, {"method"})])

SerCustomContent(c) == ("method" :> JStr(c.method)) @@ c.fields

\* serde(untagged) StartMethod: the first variant that deserializes wins. Before
\* it, a StartMethod that is dispatched on the method string.
DeStartMethodByTag(obj) ==
    IF Has(obj, "method") /\ obj["method"] = JStr("m.sas.v1")
        THEN IF DeMSasV1Content(obj).ok
                 THEN Ok([variant |-> "MSasV1", content |-> DeMSasV1Content(obj).val])
             ELSE DeMSasV1Content(obj)
    ELSE IF DeCustomContent(obj).ok
        THEN Ok([variant |-> "Custom", content |-> DeCustomContent(obj).val])
    ELSE DeError("data did not match any variant of untagged enum", "StartMethod")
DeStartMethod(obj) ==
    IF DeMSasV1Content(obj).ok
        THEN Ok([variant |-> "MSasV1", content |-> DeMSasV1Content(obj).val])
    ELSE IF DeCustomContent(obj).ok
        THEN Ok([variant |-> "Custom", content |-> DeCustomContent(obj).val])
    ELSE DeError("data did not match any variant of untagged enum", "StartMethod")

SerStartMethod(m) ==
    IF m.variant = "MSasV1" THEN SerMSasV1Content(m.content)
    ELSE SerCustomContent(m.content)

\* derive(Deserialize) for StartEventContent: two required strings, and the rest
\* of the object flattened into the method.
DeStartEventContent(obj) ==
    IF Has(obj, "from_device") /\ obj["from_device"].t # "str"
        THEN DeError("invalid type", "from_device")
    ELSE IF Has(obj, "transaction_id") /\ obj["transaction_id"].t # "str"
        THEN DeError("invalid type", "transaction_id")
    ELSE IF ~Has(obj, "from_device") THEN DeError("missing field", "from_device")
    ELSE IF ~Has(obj, "transaction_id") THEN DeError("missing field", "transaction_id")
    ELSE LET m == DeStartMethod(Without(obj, {"from_device", "transaction_id"}))
         IN  IF m.ok
                 THEN Ok([from_device |-> obj["from_device"].s,
                          transaction_id |-> obj["transaction_id"].s,
                          method |-> m.val])
             ELSE m

SerStartEventContent(c) ==
    [from_device |-> JStr(c.from_device), transaction_id |-> JStr(c.transaction_id)]
        @@ SerStartMethod(c.method)

\* The content objects a peer may send.
WireNames(field) ==
    IF field = "key_agreement_protocols" THEN {"curve25519", "x"}
    ELSE IF field = "hashes" THEN {"sha256", "x"}
    ELSE IF field = "message_authentication_codes" THEN {"hkdf-hmac-sha256", "x"}
    ELSE {"decimal", "x"}
ListValues(field) ==
    {Absent, JStr("x")}
        \cup {JArr([i \in 1..Len(q) |-> JStr(q[i])]) :
                q \in SeqsUpTo(WireNames(field), MaxJsonList)}
StartJsonOptions ==
    [from_device : {Absent, JStr("123")},
     transaction_id : {JStr("456")},
     method : {Absent, JStr("m.sas.v1"), JStr("m.sas.custom"), JNum(1)},
     key_agreement_protocols : ListValues("key_agreement_protocols"),
     hashes : ListValues("hashes"),
     message_authentication_codes : ListValues("message_authentication_codes"),
     short_authentication_string : ListValues("short_authentication_string"),
     test : {Absent, JStr("field")}]

(***************************************************************************)
(* MxcUri                                                                  *)
(***************************************************************************)

\* Longest free tail of a URI string, after its head and its padding.
MaxTail == 3
\* NonZeroU8 holds the slash index modulo 2^8.
U8Range == 256
\* as_str()[6..]: the length of the scheme prefix.
SchemeLen == 6

Err(e) == [ok |-> FALSE, err |-> e]
Panic == [ok |-> FALSE, panic |-> TRUE]
OkUnit == [ok |-> TRUE, unit |-> TRUE]

Scheme == <<"m", "x", "c", ":", "/", "/">>
HostChars == {"a", "1", ".", "-"}
Digits == {"1"}
UriAlphabet == {"a", "1", ".", ":", "/"}

Min(S) == CHOOSE i \in S : \A j \in S : i <= j
\* The position (from 1) of the first c in seq, 0 if there is none.
Find(seq, c) ==
    LET at == {i \in 1..Len(seq) : seq[i] = c}
    IN  IF at = {} THEN 0 ELSE Min(at)
StartsWith(seq, prefix) ==
    /\ Len(seq) >= Len(prefix)
    /\ \A i \in 1..Len(prefix) : seq[i] = prefix[i]
Repeat(c, n) == [i \in 1..n |-> c]

\* The ServerName grammar: a host name or an IPv4 literal, with an optional port.
ServerNameValid(name) ==
    LET colon == Find(name, ":")
        host == IF colon = 0 THEN name ELSE SubSeq(name, 1, colon - 1)
        port == IF colon = 0 THEN <<>> ELSE SubSeq(name, colon + 1, Len(name))
    IN  /\ host # <<>>
        /\ \A i \in 1..Len(host) : host[i] \in HostChars
        /\ colon # 0 =>
            /\ port # <<>>
            /\ Len(port) <= 5
            /\ \A i \in 1..Len(port) : port[i] \in Digits

\* The slash index as the NonZeroU8 carries it, and as a wider type would.
SlashIdx(index) ==
    IF index % U8Range = 0 THEN Panic ELSE [ok |-> TRUE, idx |-> index % U8Range]

\* ruma_identifiers_validation::mxc_uri::validate: the index (from 0) of the
\* first slash after the scheme.
mxc_uri_validate(uri) ==
    IF ~StartsWith(uri, Scheme) THEN Err("WrongSchema")
    ELSE LET rest == SubSeq(uri, SchemeLen + 1, Len(uri))
             slash == Find(rest, "/")
         IN  IF slash = 0 THEN Err("MissingSlash")
             ELSE IF ~ServerNameValid(SubSeq(rest, 1, slash - 1))
                 THEN Err("ServerNameMalformed")
             ELSE SlashIdx(slash - 1 + SchemeLen)

\* MxcUri::extract_slash_idx
extract_slash_idx(uri) == mxc_uri_validate(uri)

\* MxcUri::parts: as_str()[6..idx] as a ServerName (unwrapped), as_str()[idx + 1..].
parts(uri) ==
    LET r == extract_slash_idx(uri)
    IN  IF ~r.ok THEN r
        ELSE IF SchemeLen > r.idx THEN Panic
        ELSE IF ~ServerNameValid(SubSeq(uri, SchemeLen + 1, r.idx)) THEN Panic
        ELSE [ok |-> TRUE,
              server |-> SubSeq(uri, SchemeLen + 1, r.idx),
              media |-> SubSeq(uri, r.idx + 2, Len(uri))]

\* MxcUri::media_id
media_id(uri) ==
    IF parts(uri).ok THEN [ok |-> TRUE, media |-> parts(uri).media] ELSE parts(uri)

\* MxcUri::server_name
server_name(uri) ==
    IF parts(uri).ok THEN [ok |-> TRUE, server |-> parts(uri).server] ELSE parts(uri)

\* MxcUri::validate
validate(uri) ==
    IF extract_slash_idx(uri).ok THEN OkUnit ELSE extract_slash_idx(uri)

\* MxcUri::is_valid, and before it the inverted test and a test that always
\* passes.
is_valid_inverted(uri) ==
    IF validate(uri) = Panic THEN Panic ELSE [bool |-> ~validate(uri).ok]
is_valid_always(uri) ==
    IF validate(uri) = Panic THEN Panic ELSE [bool |-> TRUE]
is_valid(uri) ==
    IF validate(uri) = Panic THEN Panic ELSE [bool |-> validate(uri).ok]

\* The strings a caller may wrap: a head, a run of host characters, a free tail.
UriHeads == {Scheme, <<>>, <<"m", "x", "c", ":", "/">>}
UriPads == {0, 250, 256}
UriStrings ==
    {head \o Repeat("a", pad) \o tail :
        head \in UriHeads, pad \in UriPads, tail \in SeqsUpTo(UriAlphabet, MaxTail)}

(***************************************************************************)
(* knock_room: the request and its wire message                            *)
(***************************************************************************)

\* Longest server_name list of a knock_room request.
MaxServers == 2

Some(v) == [some |-> v]

\* The server names the requests and contents of the model carry, and the
\* ServerName grammar on the strings the model uses.
KnownServerNames == {"example.com", "a.com", "b.com", "c.org:8448"}
KnockServerNames == {"a.com", "b.com", "c.org:8448"}
ParseServerName(s) ==
    IF s \in KnownServerNames THEN Ok(s) ELSE Err("InvalidServerName")

\* ruma_api! metadata of knock_room, and the same endpoint declared without
\* authentication.
KnockRoomMetadataNoAuth ==
    [description |-> "Knock on a room.", method |-> "POST", name |-> "knock_room",
     path |-> <<"_matrix", "client", "r0", "knock", ":room_id_or_alias">>,
     rate_limited |-> TRUE, authentication |-> "None"]
KnockRoomMetadata ==
    [description |-> "Knock on a room.", method |-> "POST", name |-> "knock_room",
     path |-> <<"_matrix", "client", "r0", "knock", ":room_id_or_alias">>,
     rate_limited |-> TRUE, authentication |-> "AccessToken"]

\* The endpoints of the model: knock_room, and the same shape registered under
\* the two other authentication requirements.
Endpoints ==
    {KnockRoomMetadata}
        \cup {[KnockRoomMetadata EXCEPT !.name = "unauthenticated",
                                        !.authentication = "None"],
              [KnockRoomMetadata EXCEPT !.name = "optionally_authenticated",
                                        !.authentication = "Optional"]}

\* Request::new
RequestNew(room_id_or_alias) ==
    [room_id_or_alias |-> room_id_or_alias, reason |-> None, server_name |-> <<>>]

\* The requests a caller may build: new, then the public fields set.
KnockRequests ==
    {[RequestNew("!room:a.com") EXCEPT !.reason = r, !.server_name = l] :
        r \in {None, Some("please")}, l \in SeqsUpTo(KnockServerNames, MaxServers)}

\* serde(skip_serializing_if) of the two optional request fields, and a skip
\* that also drops a one-element list.
ReasonIsSkipped(reason) == reason = None
ServerNameIsSkippedShort(list) == Len(list) <= 1
ServerNameIsSkipped(list) == Len(list) = 0

\* Percent-encoding of a path segment or query value, and its inverse.
PctEncode(str) ==
    IF str = "c.org:8448" THEN "c.org%3A8448"
    ELSE IF str = "!room:a.com" THEN "%21room%3Aa.com"
    ELSE str
PctDecode(str) ==
    IF str = "c.org%3A8448" THEN "c.org:8448"
    ELSE IF str = "%21room%3Aa.com" THEN "!room:a.com"
    ELSE str

\* A multi-valued query field: key=value pairs in list order, joined by &.
RECURSIVE QueryPairs(_, _)
QueryPairs(key, list) ==
    IF list = <<>> THEN <<>>
    ELSE IF Len(list) = 1 THEN <<key, "=", PctEncode(list[1])>>
    ELSE <<key, "=", PctEncode(list[1]), "&">> \o QueryPairs(key, Tail(list))

\* The query string of a knock_room request.
RequestQuery(req) ==
    IF ServerNameIsSkipped(req.server_name) THEN <<>>
    ELSE QueryPairs("server_name", req.server_name)

\* The JSON body of a knock_room request.
RequestBody(req) ==
    IF ReasonIsSkipped(req.reason) THEN EmptyObject
    ELSE [reason |-> JStr(req.reason.some)]

\* The headers the authentication requirement of the endpoint asks for.
AuthorizationHeader(token) == [name |-> "authorization", value |-> <<"Bearer", token>>]
AuthHeaders(meta, token) ==
    IF meta.authentication = "None" THEN Ok({})
    ELSE IF meta.authentication = "AccessToken"
        THEN IF token = None THEN Err("MissingToken")
             ELSE Ok({AuthorizationHeader(token.some)})
    ELSE IF token = None THEN Ok({}) ELSE Ok({AuthorizationHeader(token.some)})

\* OutgoingRequest::try_into_http_request
TryIntoHttpRequest(meta, req, token) ==
    IF ~AuthHeaders(meta, token).ok THEN AuthHeaders(meta, token)
    ELSE Ok([method |-> meta.method,
             path |-> [i \in 1..Len(meta.path) |->
                         IF meta.path[i] = ":room_id_or_alias"
                             THEN PctEncode(req.room_id_or_alias)
                         ELSE meta.path[i]],
             query |-> RequestQuery(req),
             headers |-> {[name |-> "content-type", value |-> <<"application/json">>]}
                             \cup AuthHeaders(meta, token).val,
             body |-> RequestBody(req)])

\* The query with the caller's extra parameters behind the request's own.
AppendQuery(query, extra_params) ==
    IF extra_params = None THEN query
    ELSE IF query = <<>> THEN extra_params.some
    ELSE query \o <<"&">> \o extra_params.some

\* HttpClientExt::send_request_with_url_params, up to the wire message handed to
\* the transport.
send_request_with_url_params(meta, access_token, extra_params, request) ==
    LET r == TryIntoHttpRequest(meta, request, access_token)
    IN  IF r.ok THEN Ok([r.val EXCEPT !.query = AppendQuery(@, extra_params)]) ELSE r

\* HttpClientExt::send_request
send_request(meta, access_token, request) ==
    send_request_with_url_params(meta, access_token, None, request)

\* The key=value pairs of a query string, in order.
QueryWellFormed(q) ==
    \/ q = <<>>
    \/ /\ Len(q) % 4 = 3
       /\ \A i \in 1..Len(q) : (i % 4 = 2 => q[i] = "=") /\ (i % 4 = 0 => q[i] = "&")
ParseQuery(q) ==
    [i \in 1..((Len(q) + 1) \div 4) |->
        [key |-> q[4 * (i - 1) + 1], value |-> PctDecode(q[4 * (i - 1) + 3])]]
\* The values the pairs give to key, in order of occurrence.
RECURSIVE ValuesOf(_, _)
ValuesOf(pairs, key) ==
    IF pairs = <<>> THEN <<>>
    ELSE (IF Head(pairs).key = key THEN <<Head(pairs).value>> ELSE <<>>)
            \o ValuesOf(Tail(pairs), key)

\* IncomingRequest::try_from_http_request
TryFromHttpRequest(meta, wire) ==
    IF \/ Len(wire.path) # Len(meta.path)
       \/ \E i \in 1..Len(meta.path) :
            meta.path[i] # ":room_id_or_alias" /\ wire.path[i] # meta.path[i]
        THEN Err("PathMismatch")
    ELSE IF ~QueryWellFormed(wire.query) THEN Err("MalformedWire")
    ELSE LET names == ValuesOf(ParseQuery(wire.query), "server_name")
         IN  IF \E i \in 1..Len(names) : ~ParseServerName(names[i]).ok
                 THEN Err("InvalidServerName")
             ELSE IF Has(wire.body, "reason") /\ wire.body["reason"].t \notin {"str", "null"}
                 THEN Err("MalformedWire")
             ELSE Ok([room_id_or_alias |-> PctDecode(wire.path[Len(wire.path)]),
                      reason |-> IF Has(wire.body, "reason") /\ wire.body["reason"].t = "str"
                                     THEN Some(wire.body["reason"].s)
                                 ELSE None,
                      server_name |-> names])

(***************************************************************************)
(* m.space.child: ChildEventContent                                        *)
(***************************************************************************)

\* Longest via list of a ChildEventContent.
MaxVia == 1

ChildFields == {"via", "order", "suggested"}

\* ChildEventContent::new
ChildEventContentNew == [via |-> None, order |-> None, suggested |-> None]

\* The contents a caller may build: new, then the public fields set.
ChildEventContents ==
    {[ChildEventContentNew EXCEPT !.via = v, !.order = o, !.suggested = g] :
        v \in {None} \cup {Some(l) : l \in SeqsUpTo({"example.com", "a.com"}, MaxVia)},
        o \in {None, Some("uwu")},
        g \in {None, Some(FALSE), Some(TRUE)}}

\* The JSON value of a field that is Some.
ChildFieldJson(field, v) ==
    IF field = "via" THEN JArr([i \in 1..Len(v) |-> JStr(v[i])])
    ELSE IF field = "order" THEN JStr(v)
    ELSE JBool(v)

\* derive(Serialize) with skip_serializing_if = "Option::is_none" on every field,
\* and the same without the skip (None becomes null).
SerChildEventContentNull(c) ==
    [f \in ChildFields |->
        IF c[f] = None THEN JNull ELSE ChildFieldJson(f, c[f].some)]
SerChildEventContent(c) ==
    [f \in {g \in ChildFields : c[g] # None} |-> ChildFieldJson(f, c[f].some)]

\* Whether a JSON value deserializes as the field's inner type.
ChildFieldFits(field, j) ==
    IF field = "via"
        THEN IsStrArray(j) /\ \A i \in 1..Len(j.a) : ParseServerName(j.a[i].s).ok
    ELSE IF field = "order" THEN j.t = "str"
    ELSE j.t = "bool"
ChildFieldValue(field, j) ==
    IF field = "via" THEN [i \in 1..Len(j.a) |-> j.a[i].s]
    ELSE IF field = "order" THEN j.s
    ELSE j.b

\* derive(Deserialize): an absent or null field is None, a key the struct does
\* not declare is skipped unread. The first definition is the same under
\* serde(deny_unknown_fields), which the struct does not carry.
DeChildEventContentDenyUnknown(obj) ==
    IF \/ \E f \in ChildFields :
            Has(obj, f) /\ obj[f] # JNull /\ ~ChildFieldFits(f, obj[f])
       \/ DOMAIN obj \ ChildFields # {}
        THEN Err("invalid type")
    ELSE Ok([f \in ChildFields |->
                IF Has(obj, f) /\ obj[f] # JNull
                    THEN Some(ChildFieldValue(f, obj[f]))
                ELSE None])
DeChildEventContent(obj) ==
    IF \E f \in ChildFields :
            Has(obj, f) /\ obj[f] # JNull /\ ~ChildFieldFits(f, obj[f])
        THEN Err("invalid type")
    ELSE Ok([f \in ChildFields |->
                IF Has(obj, f) /\ obj[f] # JNull
                    THEN Some(ChildFieldValue(f, obj[f]))
                ELSE None])

\* The content objects a peer may send.
ChildJsonOptions ==
    [via : {Absent, JNull, JStr("example.com"), JArr(<<JStr("not a name")>>)}
            \cup {JArr([i \in 1..Len(l) |-> JStr(l[i])]) :
                    l \in SeqsUpTo({"example.com", "a.com"}, MaxVia)},
     order : {Absent, JNull, JStr("uwu"), JNum(1)},
     suggested : {Absent, JNull, JBool(FALSE), JBool(TRUE)},
     custom : {Absent, JStr("kept?")}]

(***************************************************************************)
(* Poll response: PollResponseEventContent                                 *)
(***************************************************************************)

\* Longest selections list of a poll response.
MaxSelections == 2

SelectionsKey == "org.matrix.msc3381.v2.selections"
RelatesToKey == "m.relates_to"

JObj(o) == [t |-> "obj", o |-> o]

\* Reference::new
ReferenceNew(event_id) == [rel_type |-> "m.reference", event_id |-> event_id]

\* PollResponseEventContent::new, and a constructor that forgets the selections.
PollResponseEventContentNewEmpty(selections, poll_start_id) ==
    [selections |-> <<>>, relates_to |-> ReferenceNew(poll_start_id)]
PollResponseEventContentNew(selections, poll_start_id) ==
    [selections |-> selections, relates_to |-> ReferenceNew(poll_start_id)]

EventIds == {"$poll1", "$poll2"}
Answers == {"one", "two"}

\* Whether a JSON value deserializes as a Reference.
IsReference(j) ==
    /\ j.t = "obj"
    /\ Has(j.o, "event_id")
    /\ j.o["event_id"].t = "str"
    /\ j.o["event_id"].s \in EventIds

\* What reading one entry of the content object fails with, if anything.
EntryFails(e) ==
    \/ e.key = SelectionsKey /\ ~IsStrArray(e.value)
    \/ e.key = RelatesToKey /\ ~IsReference(e.value)

HasKey(entries, key) == \E i \in 1..Len(entries) : entries[i].key = key
ValueAt(entries, key) ==
    entries[CHOOSE i \in 1..Len(entries) : entries[i].key = key].value

\* derive(Deserialize) of PollResponseEventContent: the entries are read in
\* document order and the first that does not fit its field fails the whole;
\* missing fields are looked for afterwards, in declaration order.
DePollResponseEventContent(entries) ==
    IF \E i \in 1..Len(entries) : EntryFails(entries[i])
        THEN LET i == Min({k \in 1..Len(entries) : EntryFails(entries[k])})
             IN  DeError("invalid type", entries[i].key)
    ELSE IF ~HasKey(entries, SelectionsKey) THEN DeError("missing field", SelectionsKey)
    ELSE IF ~HasKey(entries, RelatesToKey) THEN DeError("missing field", RelatesToKey)
    ELSE Ok([selections |-> LET j == ValueAt(entries, SelectionsKey)
                            IN  [i \in 1..Len(j.a) |-> j.a[i].s],
             relates_to |-> ReferenceNew(ValueAt(entries, RelatesToKey).o["event_id"].s)])

\* The content objects a peer may send: each key absent or with one of a few
\* values, in every order.
PollEntryOptions ==
    {[key |-> SelectionsKey, value |-> v] :
        v \in {JNum(1), JArr(<<>>), JArr(<<JStr("one")>>),
               JArr(<<JStr("two"), JStr("one")>>)}}
    \cup {[key |-> RelatesToKey, value |-> v] :
        v \in {JNull, JStr("$poll1"),
               JObj([rel_type |-> JStr("m.reference"), event_id |-> JStr("$poll1")])}}
    \cup {[key |-> "x.custom", value |-> JStr("extra")]}
PollJsons ==
    {es \in SeqsUpTo(PollEntryOptions, 3) :
        \A i, j \in 1..Len(es) : i # j => es[i].key # es[j].key}

(***************************************************************************)
(* DeviceId                                                                *)
(***************************************************************************)

\* Longest string a caller turns into a DeviceId.
MaxDeviceLen == 2

\* The length DeviceId::new asks generate_localpart for.
DeviceIdLen == 8

\* generate_localpart(length): the strings the random source may produce.
RandChars == {"a", "Z", "7"}
generate_localpart(length) == [1..length -> RandChars]

\* opaque_identifier!: From<&str> / from_owned / Deserialize wrap the string as
\* it is.
from_owned(str) == [id |-> str]
as_str(id) == id.id

\* DeviceId::new: every id it may return. The first definition asks for one
\* character less.
DeviceIdNewShort == {from_owned(l) : l \in generate_localpart(DeviceIdLen - 1)}
DeviceIdNew == {from_owned(l) : l \in generate_localpart(DeviceIdLen)}

\* The strings a caller may hand to From<&str>.
DeviceStrings == SeqsUpTo({"A", "b", "1"}, MaxDeviceLen)

(***************************************************************************)
(* Base64                                                                  *)
(***************************************************************************)

\* Longest byte sequence of a Base64 value, longest string handed to parse.
MaxBytes == 3
MaxEncoded == 3

\* The 62 symbols the two alphabets share, for the values 0 to 61.
AlphaNum ==
    <<
      "A", "B", "C", "D", "E", "F", "G", "H", "I", "J", "K", "L", "M",
      "N", "O", "P", "Q", "R", "S", "T", "U", "V", "W", "X", "Y", "Z",
      "a", "b", "c", "d", "e", "f", "g", "h", "i", "j", "k", "l", "m",
      "n", "o", "p", "q", "r", "s", "t", "u", "v", "w", "x", "y", "z",
      "0", "1", "2", "3", "4", "5", "6", "7", "8", "9" >>
StandardAlphabet == AlphaNum \o <<"+", "/">>
UrlSafeAlphabet == AlphaNum \o <<"-", "_">>

\* base64::Config values: the two unpadded ones of the base64 crate.
STANDARD_NO_PAD ==
    [char_set |-> "Standard", pad |-> FALSE, decode_allow_trailing_bits |-> FALSE]
URL_SAFE_NO_PAD ==
    [char_set |-> "UrlSafe", pad |-> FALSE, decode_allow_trailing_bits |-> FALSE]
decode_allow_trailing_bits(config, allow) ==
    [config EXCEPT !.decode_allow_trailing_bits = allow]

\* Base64Config::CONF of the two configuration types.
Base64Configs == {"Standard", "UrlSafe"}
CONF(C) ==
    IF C = "Standard" THEN decode_allow_trailing_bits(STANDARD_NO_PAD, TRUE)
    ELSE decode_allow_trailing_bits(URL_SAFE_NO_PAD, TRUE)

\* The crate constant encode and parse name.
BASE64_CONFIG == decode_allow_trailing_bits(STANDARD_NO_PAD, TRUE)

Alphabet(config) ==
    IF config.char_set = "Standard" THEN StandardAlphabet ELSE UrlSafeAlphabet

\* The 6-bit values of a byte sequence, the last one filled up with zero bits.
RECURSIVE Sextets(_)
Sextets(bytes) ==
    IF Len(bytes) = 0 THEN <<>>
    ELSE IF Len(bytes) = 1
        THEN <<bytes[1] \div 4, (bytes[1] % 4) * 16>>
    ELSE IF Len(bytes) = 2
        THEN <<bytes[1] \div 4,
               (bytes[1] % 4) * 16 + bytes[2] \div 16,
               (bytes[2] % 16) * 4>>
    ELSE <<bytes[1] \div 4,
           (bytes[1] % 4) * 16 + bytes[2] \div 16,
           (bytes[2] % 16) * 4 + bytes[3] \div 64,
           bytes[3] % 64>> \o Sextets(SubSeq(bytes, 4, Len(bytes)))

\* base64::encode_config
encode_config(bytes, config) ==
    LET six == Sextets(bytes)
        text == [i \in 1..Len(six) |-> Alphabet(config)[six[i] + 1]]
    IN  IF config.pad
            THEN text \o [i \in 1..((4 - (Len(six) % 4)) % 4) |-> "="]
        ELSE text

\* The value of a symbol in an alphabet (the symbol is one of it).
ValueOf(alphabet, char) == (CHOOSE i \in 1..Len(alphabet) : alphabet[i] = char) - 1

\* The bytes of a sequence of 6-bit values, and the bits left over at the end.
RECURSIVE BytesOf(_)
BytesOf(six) ==
    IF Len(six) <= 1 THEN <<>>
    ELSE IF Len(six) = 2 THEN <<six[1] * 4 + six[2] \div 16>>
    ELSE IF Len(six) = 3
        THEN <<six[1] * 4 + six[2] \div 16, (six[2] % 16) * 16 + six[3] \div 4>>
    ELSE <<six[1] * 4 + six[2] \div 16,
           (six[2] % 16) * 16 + six[3] \div 4,
           (six[3] % 4) * 64 + six[4]>> \o BytesOf(SubSeq(six, 5, Len(six)))
TrailingBits(six) ==
    IF Len(six) % 4 = 2 THEN six[Len(six)] % 16
    ELSE IF Len(six) % 4 = 3 THEN six[Len(six)] % 4
    ELSE 0

\* base64::decode_config on unpadded input.
decode_config(encoded, config) ==
    IF \E i \in 1..Len(encoded) : ~Contains(Alphabet(config), encoded[i])
        THEN Err("InvalidByte")
    ELSE IF Len(encoded) % 4 = 1 THEN Err("InvalidLength")
    ELSE LET six == [i \in 1..Len(encoded) |-> ValueOf(Alphabet(config), encoded[i])]
         IN  IF TrailingBits(six) # 0 /\ ~config.decode_allow_trailing_bits
                 THEN Err("InvalidLastSymbol")
             ELSE Ok(BytesOf(six))

\* Base64::new, and before it a constructor that loses the last byte.
Base64NewShort(bytes) ==
    [bytes |-> SubSeq(bytes, 1, Len(bytes) - 1)]
Base64New(bytes) == [bytes |-> bytes]

\* Base64::empty
Base64Empty == [bytes |-> <<>>]

\* Base64::as_bytes, Base64::into_inner
as_bytes(self) == self.bytes
into_inner(self) == self.bytes

\* Base64::encode for Base64<C, B>
Base64Encode(C, self) == encode_config(self.bytes, BASE64_CONFIG)

\* Base64::parse, and before it a parse that refuses trailing bits.
Base64ParseStrict(C, encoded) ==
    LET r == decode_config(encoded, decode_allow_trailing_bits(BASE64_CONFIG, FALSE))
    IN  IF r.ok THEN Ok(Base64New(r.val)) ELSE r
Base64Parse(C, encoded) ==
    LET r == decode_config(encoded, BASE64_CONFIG)
    IN  IF r.ok THEN Ok(Base64New(r.val)) ELSE r

\* Serialize / Deserialize for Base64: the string of encode, parse of the string.
Base64Serialize(C, self) == Base64Encode(C, self)
Base64Deserialize(C, encoded) == Base64Parse(C, encoded)

\* The byte sequences and the strings of the model: bytes whose 6-bit values
\* reach 62 and 63, symbols of both alphabets and symbols with trailing bits.
ByteValues == {0, 1, 251, 255}
ByteSeqs == SeqsUpTo(ByteValues, MaxBytes)
EncodedChars == {"A", "Q", "R", "8", "+", "/", "-", "_"}
EncodedStrings == SeqsUpTo(EncodedChars, MaxEncoded)

(***************************************************************************)
(* m.room.redaction: RedactionEvent and AnyMessageEvent                    *)
(***************************************************************************)

\* RedactionEventContent::with_reason and the content without a reason.
RedactionEventContents == {[reason |-> None], [reason |-> Some("being a turd")]}

\* Unsigned::default and an Unsigned that holds an age; Unsigned::is_empty.
Unsigneds == {[age |-> None], [age |-> Some(1)]}
UnsignedIsEmpty(unsigned) == unsigned.age = None

\* The events a caller may build.
RedactionEvents ==
    [content : RedactionEventContents,
     redacts : {"$nomore:example.com", "$other:example.com"},
     event_id : {"$h29iv0s8:example.com", "$h2:example.com"},
     sender : {"@carl:example.com", "@eve:example.com"},
     origin_server_ts : {1, 2},
     room_id : {"!roomid:room.com"},
     unsigned : Unsigneds]

\* Serialize for RedactionEventContent and Unsigned.
SerRedactionEventContent(content) ==
    IF content.reason = None THEN EmptyObject
    ELSE [reason |-> JStr(content.reason.some)]
SerUnsigned(unsigned) ==
    IF unsigned.age = None THEN EmptyObject ELSE [age |-> JNum(unsigned.age.some)]

\* The envelope keys every redaction event has.
RedactionEnvelope(ev) ==
    [event_id |-> JStr(ev.event_id),
     sender |-> JStr(ev.sender),
     origin_server_ts |-> JNum(ev.origin_server_ts),
     room_id |-> JStr(ev.room_id),
     type |-> JStr("m.room.redaction")]

\* Serialize for RedactionEvent: redacts at the top level, unsigned left out
\* when empty. Before it, a serializer that puts redacts into the content.
SerRedactionEventRedactsInContent(ev) ==
    RedactionEnvelope(ev)
        @@ [content |-> JObj(SerRedactionEventContent(ev.content)
                                @@ [redacts |-> JStr(ev.redacts)])]
        @@ (IF UnsignedIsEmpty(ev.unsigned) THEN EmptyObject
            ELSE [unsigned |-> JObj(SerUnsigned(ev.unsigned))])
SerRedactionEvent(ev) ==
    RedactionEnvelope(ev)
        @@ [content |-> JObj(SerRedactionEventContent(ev.content)),
            redacts |-> JStr(ev.redacts)]
        @@ (IF UnsignedIsEmpty(ev.unsigned) THEN EmptyObject
            ELSE [unsigned |-> JObj(SerUnsigned(ev.unsigned))])

RedactionKeys ==
    {"content", "redacts", "event_id", "sender", "origin_server_ts", "room_id"}

\* Deserialize for RedactionEvent.
DeRedactionEvent(obj) ==
    IF \E k \in RedactionKeys : ~Has(obj, k)
        THEN DeError("missing field", CHOOSE k \in RedactionKeys : ~Has(obj, k))
    ELSE IF \/ obj["content"].t # "obj"
            \/ \E k \in {"redacts", "event_id", "sender", "room_id"} : obj[k].t # "str"
            \/ obj["origin_server_ts"].t # "num"
            \/ Has(obj, "unsigned") /\ obj["unsigned"].t # "obj"
        THEN DeError("invalid type", "event")
    ELSE Ok([content |->
                [reason |-> IF Has(obj["content"].o, "reason")
                                THEN Some(obj["content"].o["reason"].s)
                            ELSE None],
             redacts |-> obj["redacts"].s,
             event_id |-> obj["event_id"].s,
             sender |-> obj["sender"].s,
             origin_server_ts |-> obj["origin_server_ts"].n,
             room_id |-> obj["room_id"].s,
             unsigned |->
                [age |-> IF Has(obj, "unsigned") /\ Has(obj["unsigned"].o, "age")
                             THEN Some(obj["unsigned"].o["age"].n)
                         ELSE None]])

\* Deserialize for AnyMessageEvent: the type string selects the variant; the
\* content of a redaction is no m.room.message content.
DeAnyMessageEvent(obj) ==
    IF ~Has(obj, "type") THEN DeError("missing field", "type")
    ELSE IF obj["type"] = JStr("m.room.redaction")
        THEN IF DeRedactionEvent(obj).ok
                 THEN Ok([variant |-> "RoomRedaction", event |-> DeRedactionEvent(obj).val])
             ELSE DeRedactionEvent(obj)
    ELSE DeError("missing field", "msgtype")

(***************************************************************************)
(* ruma-client: one call through HttpClient                                *)
(***************************************************************************)

\* What HttpClient::send_http_request resolves to: an http::Response with a
\* status, or the transport's own error.
HttpStatuses == {200, 403, 404, 500}
TransportOutcomes ==
    {[kind |-> "response", status |-> st] : st \in HttpStatuses}
        \cup {[kind |-> "error", status |-> 0]}

\* The result of a call that did not get to the transport: the encoding error.
ReturnIntoHttpError(wire) ==
    [ok |-> FALSE, err |-> "IntoHttp", status |-> 0, decoded |-> FALSE]

\* IncomingResponse::try_from_http_response: a status of 400 or more is the
\* server's error, any other status gives the typed response.
try_from_http_response(res) ==
    IF res.status >= 400
        THEN [ok |-> FALSE, err |-> "FromHttpResponse", status |-> res.status,
              decoded |-> TRUE]
    ELSE [ok |-> TRUE, err |-> "", status |-> res.status, decoded |-> TRUE]

\* The rest of the call once the transport has resolved: where the call goes
\* and, when it ends, its result. Before it, a call that sends again after a
\* transport error.
ResumeAfterSendRetrying(outcome) ==
    IF outcome.kind = "error"
        THEN [pc |-> "knock_enc", result |-> None]
    ELSE [pc |-> "http_done", result |-> try_from_http_response(outcome)]
ResumeAfterSend(outcome) ==
    IF outcome.kind = "error"
        THEN [pc |-> "http_done",
              result |-> [ok |-> FALSE, err |-> "Response", status |-> 0,
                          decoded |-> FALSE]]
    ELSE [pc |-> "http_done", result |-> try_from_http_response(outcome)]

Init ==
    /\ pc = "idle"
    /\ sasInit = None
    /\ sasResult = None
    /\ startJson = None
    /\ startOut = None
    /\ startSer = None
    /\ mxc = <<>>
    /\ mxcOut = None
    /\ knock = None
    /\ knockWire = None
    /\ knockDec = None
    /\ childContent = None
    /\ childJson = None
    /\ childOut = None
    /\ childSer = None
    /\ pollNew = None
    /\ pollJson = <<>>
    /\ pollOut = None
    /\ deviceIn = <<>>
    /\ deviceId = None
    /\ b64 = None
    /\ b64In = <<>>
    /\ b64Text = <<>>
    /\ b64Out = None
    /\ redaction = None
    /\ redactionJson = None
    /\ redactionOut = None
    /\ httpSends = 0
    /\ httpTransport = None
    /\ httpResult = None

\* A caller builds an init struct and calls MSasV1Content::new on it.
New ==
    /\ pc = "idle"
    /\ \E init \in MSasV1ContentInit :
        /\ sasInit' = init
        /\ sasResult' = MSasV1ContentNew(init)
    /\ pc' = "sas_new"
    /\ UNCHANGED <<startJson, startOut, startSer, mxcVars, knockVars, childVars, pollVars, extVars>>

\* The content built by new, wrapped in a StartEventContent, is serialized.
SerializeNew ==
    /\ pc = "sas_new"
    /\ sasResult.ok
    /\ startSer' = SerStartEventContent(
            [from_device |-> "123", transaction_id |-> "456",
             method |-> [variant |-> "MSasV1", content |-> sasResult.val]])
    /\ pc' = "sas_ser"
    /\ UNCHANGED <<sasInit, sasResult, startJson, startOut,
                   mxcVars, knockVars, childVars, pollVars, extVars>>

\* Received m.key.verification.start content is deserialized.
DeserializeStart ==
    /\ pc = "idle"
    /\ \E opts \in StartJsonOptions :
        /\ startJson' = ObjectOf(opts)
        /\ startOut' = DeStartEventContent(ObjectOf(opts))
    /\ pc' = "start_de"
    /\ UNCHANGED <<sasInit, sasResult, startSer, mxcVars, knockVars, childVars, pollVars, extVars>>

\* The deserialized content is serialized again.
ReserializeStart ==
    /\ pc = "start_de"
    /\ startOut.ok
    /\ startSer' = SerStartEventContent(startOut.val)
    /\ pc' = "start_ser"
    /\ UNCHANGED <<sasInit, sasResult, startJson, startOut,
                   mxcVars, knockVars, childVars, pollVars, extVars>>

\* The caller drops what it holds.
Drop ==
    /\ pc # "idle"
    /\ pc' = "idle"
    /\ sasInit' = None
    /\ sasResult' = None
    /\ startJson' = None
    /\ startOut' = None
    /\ startSer' = None
    /\ mxc' = <<>>
    /\ mxcOut' = None
    /\ knock' = None
    /\ knockWire' = None
    /\ knockDec' = None
    /\ childContent' = None
    /\ childJson' = None
    /\ childOut' = None
    /\ childSer' = None
    /\ pollNew' = None
    /\ pollJson' = <<>>
    /\ pollOut' = None
    /\ deviceIn' = <<>>
    /\ deviceId' = None
    /\ b64' = None
    /\ b64In' = <<>>
    /\ b64Text' = <<>>
    /\ b64Out' = None
    /\ redaction' = None
    /\ redactionJson' = None
    /\ redactionOut' = None
    /\ httpSends' = 0
    /\ httpTransport' = None
    /\ httpResult' = None

\* Box::<MxcUri>::from(s) wraps any string, unvalidated; validate() is called on it.
MxcValidate ==
    /\ pc = "idle"
    /\ \E s \in UriStrings :
        /\ mxc' = s
        /\ mxcOut' = validate(s)
    /\ pc' = "mxc_validate"
    /\ UNCHANGED <<sasVars, knockVars, childVars, pollVars, extVars>>

\* Box::<MxcUri>::from(s) wraps any string, unvalidated; is_valid() is called on it.
MxcIsValid ==
    /\ pc = "idle"
    /\ \E s \in UriStrings :
        /\ mxc' = s
        /\ mxcOut' = is_valid(s)
    /\ pc' = "mxc_is_valid"
    /\ UNCHANGED <<sasVars, knockVars, childVars, pollVars, extVars>>

\* Box::<MxcUri>::from(s) wraps any string, unvalidated; parts() is called on it.
MxcParts ==
    /\ pc = "idle"
    /\ \E s \in UriStrings :
        /\ mxc' = s
        /\ mxcOut' = parts(s)
    /\ pc' = "mxc_parts"
    /\ UNCHANGED <<sasVars, knockVars, childVars, pollVars, extVars>>

\* Box::<MxcUri>::from(s) wraps any string, unvalidated; server_name() is called on it.
MxcServerName ==
    /\ pc = "idle"
    /\ \E s \in UriStrings :
        /\ mxc' = s
        /\ mxcOut' = server_name(s)
    /\ pc' = "mxc_server_name"
    /\ UNCHANGED <<sasVars, knockVars, childVars, pollVars, extVars>>

\* Box::<MxcUri>::from(s) wraps any string, unvalidated; media_id() is called on it.
MxcMediaId ==
    /\ pc = "idle"
    /\ \E s \in UriStrings :
        /\ mxc' = s
        /\ mxcOut' = media_id(s)
    /\ pc' = "mxc_media_id"
    /\ UNCHANGED <<sasVars, knockVars, childVars, pollVars, extVars>>

NextMxc ==
    MxcValidate \/ MxcIsValid \/ MxcParts \/ MxcServerName \/ MxcMediaId \/ Drop

SpecMxc == Init /\ [][NextMxc]_vars

\* A knock_room request is encoded for sending to an endpoint, with or without a
\* token and extra query parameters.
KnockEncode ==
    /\ pc = "idle"
    /\ \E meta \in Endpoints, req \in KnockRequests, token \in {None, Some("tok")},
          extra \in {None, Some(<<"ts", "=", "1">>)} :
        /\ knock' = [meta |-> meta, req |-> req, token |-> token, extra |-> extra]
        /\ knockWire' = IF extra = None THEN send_request(meta, token, req)
                        ELSE send_request_with_url_params(meta, token, extra, req)
    /\ pc' = "knock_enc"
    /\ UNCHANGED <<sasVars, mxcVars, knockDec, childVars, pollVars, extVars>>

\* The server decodes the wire message of the request.
KnockDecode ==
    /\ pc = "knock_enc"
    /\ knockWire.ok
    /\ knockDec' = TryFromHttpRequest(knock.meta, knockWire.val)
    /\ pc' = "knock_dec"
    /\ UNCHANGED <<sasVars, mxcVars, knock, knockWire, childVars, pollVars, extVars>>

NextKnock == KnockEncode \/ KnockDecode \/ Drop

SpecKnock == Init /\ [][NextKnock]_vars

\* A ChildEventContent is serialized.
SerializeChild ==
    /\ pc = "idle"
    /\ \E c \in ChildEventContents :
        /\ childContent' = c
        /\ childSer' = SerChildEventContent(c)
    /\ pc' = "child_ser"
    /\ UNCHANGED <<sasVars, mxcVars, knockVars, pollVars, extVars, childJson, childOut>>

\* Received m.space.child content is deserialized.
DeserializeChild ==
    /\ pc = "idle"
    /\ \E opts \in ChildJsonOptions :
        /\ childJson' = ObjectOf(opts)
        /\ childOut' = DeChildEventContent(ObjectOf(opts))
    /\ pc' = "child_de"
    /\ UNCHANGED <<sasVars, mxcVars, knockVars, pollVars, extVars, childContent, childSer>>

\* The deserialized content is serialized again.
ReserializeChild ==
    /\ pc = "child_de"
    /\ childOut.ok
    /\ childSer' = SerChildEventContent(childOut.val)
    /\ pc' = "child_reser"
    /\ UNCHANGED <<sasVars, mxcVars, knockVars, pollVars,
                   extVars, childContent, childJson, childOut>>

NextChild == SerializeChild \/ DeserializeChild \/ ReserializeChild \/ Drop

SpecChild == Init /\ [][NextChild]_vars

\* The request body and the content together: the fields omitted when absent.
NextBody == NextKnock \/ NextChild

SpecBody == Init /\ [][NextBody]_vars

\* A poll response is built with new.
PollNew ==
    /\ pc = "idle"
    /\ \E selections \in SeqsUpTo(Answers, MaxSelections), poll_start_id \in EventIds :
        pollNew' = [selections |-> selections, poll_start_id |-> poll_start_id,
                    content |-> PollResponseEventContentNew(selections, poll_start_id)]
    /\ pc' = "poll_new"
    /\ UNCHANGED <<sasVars, mxcVars, knockVars, childVars, extVars, pollJson, pollOut>>

\* Received poll response content is deserialized.
DeserializePoll ==
    /\ pc = "idle"
    /\ \E entries \in PollJsons :
        /\ pollJson' = entries
        /\ pollOut' = DePollResponseEventContent(entries)
    /\ pc' = "poll_de"
    /\ UNCHANGED <<sasVars, mxcVars, knockVars, childVars, extVars, pollNew>>

NextPoll == PollNew \/ DeserializePoll \/ Drop

SpecPoll == Init /\ [][NextPoll]_vars

\* A DeviceId is built from a string (From<&str>, from_owned, deserialization).
DeviceFrom ==
    /\ pc = "idle"
    /\ \E str \in DeviceStrings :
        /\ deviceIn' = str
        /\ deviceId' = from_owned(str)
    /\ pc' = "device_from"
    /\ UNCHANGED <<sasVars, mxcVars, knockVars, childVars, pollVars,
                   b64Vars, redactionVars, httpVars>>

\* DeviceId::new: a random DeviceId.
DeviceNew ==
    /\ pc = "idle"
    /\ \E id \in DeviceIdNew :
        /\ deviceIn' = as_str(id)
        /\ deviceId' = id
    /\ pc' = "device_new"
    /\ UNCHANGED <<sasVars, mxcVars, knockVars, childVars, pollVars,
                   b64Vars, redactionVars, httpVars>>

NextDevice == DeviceFrom \/ DeviceNew \/ Drop

SpecDevice == Init /\ [][NextDevice]_vars

\* The identifiers together.
NextIdent == NextMxc \/ NextDevice

SpecIdent == Init /\ [][NextIdent]_vars

\* A Base64 value is built from bytes and encoded (or serialized).
Base64Encoding ==
    /\ pc = "idle"
    /\ \E C \in Base64Configs, bytes \in ByteSeqs, how \in {"encode", "serialize"} :
        /\ b64' = [C |-> C, bytes |-> bytes, value |-> Base64New(bytes)]
        /\ b64Text' = IF how = "encode" THEN Base64Encode(C, Base64New(bytes))
                      ELSE Base64Serialize(C, Base64New(bytes))
    /\ pc' = "b64_encoded"
    /\ UNCHANGED <<sasVars, mxcVars, knockVars, childVars, pollVars,
                   deviceVars, b64In, b64Out, redactionVars, httpVars>>

\* The encoding of the value is parsed back.
Base64ParseBack ==
    /\ pc = "b64_encoded"
    /\ b64In' = b64Text
    /\ b64Out' = Base64Parse(b64.C, b64Text)
    /\ pc' = "b64_back"
    /\ UNCHANGED <<sasVars, mxcVars, knockVars, childVars, pollVars,
                   deviceVars, b64, b64Text, redactionVars, httpVars>>

\* A string is parsed (or deserialized) under a configuration.
Base64Parsing ==
    /\ pc = "idle"
    /\ \E C \in Base64Configs, encoded \in EncodedStrings, how \in {"parse", "deserialize"} :
        /\ b64In' = encoded
        /\ b64Out' = IF how = "parse" THEN Base64Parse(C, encoded)
                     ELSE Base64Deserialize(C, encoded)
        /\ b64' = [C |-> C, bytes |-> <<>>, value |-> Base64Empty]
    /\ pc' = "b64_parsed"
    /\ UNCHANGED <<sasVars, mxcVars, knockVars, childVars, pollVars,
                   deviceVars, b64Text, redactionVars, httpVars>>

\* The parsed value is encoded again.
Base64Reencode ==
    /\ pc = "b64_parsed"
    /\ b64Out.ok
    /\ b64' = [C |-> b64.C, bytes |-> as_bytes(b64Out.val), value |-> b64Out.val]
    /\ b64Text' = Base64Encode(b64.C, b64Out.val)
    /\ pc' = "b64_reencoded"
    /\ UNCHANGED <<sasVars, mxcVars, knockVars, childVars, pollVars,
                   deviceVars, b64In, b64Out, redactionVars, httpVars>>

\* The canonical encoding is parsed again.
Base64Reparse ==
    /\ pc = "b64_reencoded"
    /\ b64Out' = Base64Parse(b64.C, b64Text)
    /\ pc' = "b64_reparsed"
    /\ UNCHANGED <<sasVars, mxcVars, knockVars, childVars, pollVars,
                   deviceVars, b64, b64In, b64Text, redactionVars, httpVars>>

NextBase64 ==
    \/ Base64Encoding \/ Base64ParseBack
    \/ Base64Parsing \/ Base64Reencode \/ Base64Reparse
    \/ Drop

SpecBase64 == Init /\ [][NextBase64]_vars

\* A RedactionEvent is serialized.
SerializeRedaction ==
    /\ pc = "idle"
    /\ \E ev \in RedactionEvents :
        /\ redaction' = ev
        /\ redactionJson' = SerRedactionEvent(ev)
    /\ pc' = "redaction_ser"
    /\ UNCHANGED <<sasVars, mxcVars, knockVars, childVars, pollVars,
                   deviceVars, b64Vars, redactionOut, httpVars>>

\* The envelope, as it is or under another type, is deserialized as
\* AnyMessageEvent.
DeserializeRedaction ==
    /\ pc = "redaction_ser"
    /\ \E type \in {"m.room.redaction", "m.room.message"} :
        /\ redactionJson' = [redactionJson EXCEPT !["type"] = JStr(type)]
        /\ redactionOut' =
            DeAnyMessageEvent([redactionJson EXCEPT !["type"] = JStr(type)])
    /\ pc' = "redaction_de"
    /\ UNCHANGED <<sasVars, mxcVars, knockVars, childVars, pollVars,
                   deviceVars, b64Vars, redaction, httpVars>>

NextRedaction == SerializeRedaction \/ DeserializeRedaction \/ Drop

SpecRedaction == Init /\ [][NextRedaction]_vars

\* The request of the call could not be encoded: the call ends with the
\* encoding error and the transport is not used.
HttpEncodeFailed ==
    /\ pc = "knock_enc"
    /\ ~knockWire.ok
    /\ httpResult' = ReturnIntoHttpError(knockWire)
    /\ pc' = "http_done"
    /\ UNCHANGED <<sasVars, mxcVars, knockVars, childVars, pollVars,
                   deviceVars, b64Vars, redactionVars, httpSends, httpTransport>>

\* The encoded request is handed to HttpClient::send_http_request and the
\* call awaits it.
HttpSend ==
    /\ pc = "knock_enc"
    /\ knockWire.ok
    /\ httpSends' = httpSends + 1
    /\ pc' = "http_awaiting"
    /\ UNCHANGED <<sasVars, mxcVars, knockVars, childVars, pollVars,
                   deviceVars, b64Vars, redactionVars, httpTransport, httpResult>>

\* The transport resolves and the call runs to its end.
HttpRespond ==
    /\ pc = "http_awaiting"
    /\ \E outcome \in TransportOutcomes :
        /\ httpTransport' = outcome
        /\ httpResult' = ResumeAfterSend(outcome).result
        /\ pc' = ResumeAfterSend(outcome).pc
    /\ UNCHANGED <<sasVars, mxcVars, knockVars, childVars, pollVars,
                   deviceVars, b64Vars, redactionVars, httpSends>>

NextHttp == KnockEncode \/ HttpEncodeFailed \/ HttpSend \/ HttpRespond \/ Drop

SpecHttp == Init /\ [][NextHttp]_vars

NextSas == New \/ SerializeNew \/ DeserializeStart \/ ReserializeStart \/ Drop

SpecSas == Init /\ [][NextSas]_vars

\* The whole library: any operation on any value.
Next ==
    \/ NextSas \/ NextMxc \/ NextKnock \/ NextChild \/ NextPoll
    \/ NextDevice \/ NextBase64 \/ NextRedaction
    \/ NextHttp

Spec == Init /\ [][Next]_vars

(***************************************************************************)
(* Claims about m.key.verification.start                                   *)
(***************************************************************************)

\* The fields of an init (or a content) whose minimum is unmet.
UnmetFields(c) ==
    {f \in {"key_agreement_protocols"} :
        \A i \in 1..Len(c.key_agreement_protocols) :
            c.key_agreement_protocols[i].variant
                \notin {"Curve25519", "Curve25519HkdfSha256"}}
    \cup {f \in {"hashes"} :
        \A i \in 1..Len(c.hashes) : c.hashes[i].variant # "Sha256"}
    \cup {f \in {"message_authentication_codes"} :
        \A i \in 1..Len(c.message_authentication_codes) :
            c.message_authentication_codes[i].variant # "HkdfHmacSha256"}
    \cup {f \in {"short_authentication_string"} :
        \A i \in 1..Len(c.short_authentication_string) :
            c.short_authentication_string[i].variant # "Decimal"}

C8_MethodSelectsVariant ==
    (/\ pc \in {"start_de", "start_ser"}
     /\ Has(startJson, "from_device")
     /\ Has(startJson, "method")
     /\ startJson["method"].t = "str") =>
        /\ startOut.ok
        /\ (/\ startJson["method"].s = "m.sas.v1"
            /\ \A i \in 1..4 :
                /\ Has(startJson, ListFields[i])
                /\ startJson[ListFields[i]].t = "arr")
            => startOut.val.method.variant = "MSasV1"
        /\ startJson["method"].s # "m.sas.v1" =>
            /\ startOut.val.method.variant = "Custom"
            /\ startOut.val.method.content.method = startJson["method"].s
            /\ startOut.val.method.content.fields
                = Without(startJson, {"from_device", "transaction_id", "method"})
        /\ pc = "start_ser" => startSer = startJson

\* The MSasV1Content values the state holds.
LiveMSasV1Contents ==
    {r.val : r \in {x \in {sasResult} : pc \in {"sas_new", "sas_ser"} /\ x.ok}}
    \cup {r.val.method.content :
            r \in {x \in {startOut} :
                    /\ pc \in {"start_de", "start_ser"}
                    /\ x.ok
                    /\ x.val.method.variant = "MSasV1"}}

\* C10 (as claimed): every MSasV1Content value the program produces, by new /
\* try_from or by deserialization, satisfies all four minimums.
C10_EveryContentMeetsMinimums ==
    \A c \in LiveMSasV1Contents : UnmetFields(c) = {}

\* C8 witness of the failure: content with method m.sas.custom and the four
\* lists was read as MSasV1 and serialized again as m.sas.v1.
C8_Witness ==
    /\ pc = "start_ser"
    /\ Has(startJson, "method")
    /\ startJson["method"] = JStr("m.sas.custom")
    /\ startOut.ok
    /\ startOut.val.method.variant = "MSasV1"
    /\ startOut.val.method.content.key_agreement_protocols = <<Curve25519>>
    /\ startOut.val.method.content.hashes = <<Sha256>>
    /\ startSer["method"] = JStr("m.sas.v1")

\* C10 witness of the failure: content with method m.sas.v1 and an empty
\* key_agreement_protocols, the other three minimums met, deserialized to an
\* MSasV1Content.
C10_Witness ==
    /\ pc = "start_de"
    /\ Has(startJson, "method")
    /\ startJson["method"] = JStr("m.sas.v1")
    /\ startOut.ok
    /\ startOut.val.method.variant = "MSasV1"
    /\ startOut.val.method.content
        = [key_agreement_protocols |-> <<>>, hashes |-> <<Sha256>>,
           message_authentication_codes |-> <<HkdfHmacSha256>>,
           short_authentication_string |-> <<Decimal>>]

(***************************************************************************)
(* Claims about knock_room                                                 *)
(***************************************************************************)

\* The positions of the query at which a server_name pair starts.
ServerNameAt(q) == {i \in 1..Len(q) : i % 4 = 1 /\ q[i] = "server_name"}

\* C4: a request with an empty server_name list encodes to a query without any
\* server_name parameter; a non-empty list encodes to one server_name=value pair
\* per element, in list order (a.com, b.com gives
\* server_name=a.com&server_name=b.com); decoding the query gives the same list
\* in the same order.
C4_ServerNameQuery ==
    (pc \in {"knock_enc", "knock_dec"} /\ knockWire.ok) =>
        LET list == knock.req.server_name
            q == knockWire.val.query
        IN  /\ Cardinality(ServerNameAt(q)) = Len(list)
            /\ list = <<>> => ~Contains(q, "server_name")
            /\ \A i \in 1..Len(list) :
                /\ q[4 * i - 3] = "server_name"
                /\ q[4 * i - 2] = "="
                /\ PctDecode(q[4 * i - 1]) = list[i]
                /\ i > 1 => q[4 * i - 4] = "&"
            /\ (list = <<"a.com", "b.com">> /\ knock.extra = None) =>
                q = <<"server_name", "=", "a.com", "&", "server_name", "=", "b.com">>
            /\ pc = "knock_dec" =>
                /\ knockDec.ok
                /\ knockDec.val.server_name = list

\* C4 witness: the request with a.com, b.com was encoded and decoded.
C4_Witness ==
    /\ pc = "knock_dec"
    /\ knock.req.server_name = <<"a.com", "b.com">>
    /\ knock.extra = None
    /\ knockWire.val.query
        = <<"server_name", "=", "a.com", "&", "server_name", "=", "b.com">>
    /\ knockDec.ok
    /\ knockDec.val.server_name = <<"a.com", "b.com">>

HasAuthorization(wire) == \E h \in wire.headers : h.name = "authorization"

\* C6: encoding attaches the bearer token by the endpoint's authentication
\* requirement. None: never attached, even when supplied. Required (knock_room
\* declares AccessToken): attached when supplied, and encoding fails with
\* MissingToken, producing no wire message, when not. Optional: attached exactly
\* when supplied, and encoding never fails for lack of one.
C6_TokenByRequirement ==
    pc = "knock_enc" =>
        LET auth == knock.meta.authentication
            bearer == AuthorizationHeader(knock.token.some)
        IN  /\ knock.meta.name = "knock_room" => auth = "AccessToken"
            /\ auth = "None" => knockWire.ok /\ ~HasAuthorization(knockWire.val)
            /\ (auth = "AccessToken" /\ knock.token # None) =>
                knockWire.ok /\ bearer \in knockWire.val.headers
            /\ (auth = "AccessToken" /\ knock.token = None) =>
                knockWire = Err("MissingToken")
            /\ auth = "Optional" =>
                /\ knockWire.ok
                /\ HasAuthorization(knockWire.val) <=> knock.token # None
                /\ knock.token # None => bearer \in knockWire.val.headers

\* C6 witness: knock_room was encoded without a token and failed with
\* MissingToken.
C6_Witness ==
    /\ pc = "knock_enc"
    /\ knock.meta.name = "knock_room"
    /\ knock.token = None
    /\ knockWire = Err("MissingToken")

(***************************************************************************)
(* Claims about the omitted fields and m.space.child                       *)
(***************************************************************************)

\* C5: for each field omitted when absent (reason in the knock_room body; via,
\* order and suggested in ChildEventContent) the serialized object has the key
\* exactly when the field is Some, and never as null: an all-None content
\* serializes to the empty object, Some(false) for suggested still emits
\* suggested: false; decoding an object without the key gives None for the field.
C5_OmittedWhenAbsent ==
    /\ (pc \in {"knock_enc", "knock_dec"} /\ knockWire.ok) =>
        /\ DOMAIN knockWire.val.body \subseteq {"reason"}
        /\ Has(knockWire.val.body, "reason") <=> knock.req.reason # None
        /\ Has(knockWire.val.body, "reason") =>
            knockWire.val.body["reason"] = JStr(knock.req.reason.some)
        /\ (pc = "knock_dec" /\ ~Has(knockWire.val.body, "reason")) =>
            knockDec.ok /\ knockDec.val.reason = None
    /\ pc = "child_ser" =>
        /\ \A f \in ChildFields :
            /\ Has(childSer, f) <=> childContent[f] # None
            /\ Has(childSer, f) => childSer[f] # JNull
        /\ DOMAIN childSer \subseteq ChildFields
        /\ childContent = ChildEventContentNew => childSer = EmptyObject
        /\ childContent.suggested = Some(FALSE) => childSer["suggested"] = JBool(FALSE)
    /\ (pc = "child_de" /\ childOut.ok) =>
        \A f \in ChildFields : ~Has(childJson, f) => childOut.val[f] = None

\* C5 witness: a content whose only Some field is suggested = false was
\* serialized.
C5_Witness ==
    /\ pc = "child_ser"
    /\ childContent = [via |-> None, order |-> None, suggested |-> Some(FALSE)]
    /\ DOMAIN childSer = {"suggested"}
    /\ childSer["suggested"] = JBool(FALSE)

\* Whether every declared key of the object is null or fits its field.
ChildJsonFits(obj) ==
    \A f \in ChildFields : Has(obj, f) /\ obj[f] # JNull => ChildFieldFits(f, obj[f])

\* C7 (as claimed): deserializing m.space.child content that has keys the shape
\* does not declare and serializing it again yields exactly the original keys
\* and values; an undeclared key is never dropped.
C7_UnknownKeysKept ==
    (/\ pc = "child_reser"
     /\ DOMAIN childJson \ ChildFields # {}
     /\ \A f \in DOMAIN childJson : childJson[f] # JNull) =>
        /\ DOMAIN childSer = DOMAIN childJson
        /\ \A f \in DOMAIN childJson : childSer[f] = childJson[f]

\* C7 (amended): content whose declared keys fit deserializes whatever other
\* keys it has, and serializing it again yields exactly the declared keys (via,
\* order, suggested) that carried a non-null value, with their values: an
\* undeclared key is dropped, and so is a declared key that was null.
C7_OnlyDeclaredKeysKept ==
    /\ (pc \in {"child_de", "child_reser"} /\ ChildJsonFits(childJson)) => childOut.ok
    /\ pc = "child_reser" =>
        /\ DOMAIN childSer
            = {f \in ChildFields : Has(childJson, f) /\ childJson[f] # JNull}
        /\ \A f \in DOMAIN childSer : childSer[f] = childJson[f]

\* C7 witness: content with an undeclared key was deserialized and serialized
\* again, and the key is gone.
C7_Witness ==
    /\ pc = "child_reser"
    /\ Has(childJson, "custom")
    /\ Has(childJson, "order")
    /\ Has(childSer, "order")
    /\ ~Has(childSer, "custom")

(***************************************************************************)
(* Claims about the poll response                                          *)
(***************************************************************************)

MissingRelation == DeError("missing field", RelatesToKey)

\* What new is claimed to return.
NewSetsRelation ==
    pc = "poll_new" =>
        /\ pollNew.content.relates_to.rel_type = "m.reference"
        /\ pollNew.content.relates_to.event_id = pollNew.poll_start_id
        /\ pollNew.content.selections = pollNew.selections

\* C9 (as claimed): new(selections, poll_start_id) returns content whose
\* relates_to is a Reference to exactly poll_start_id, with the selections
\* unchanged; deserializing poll response content without the m.relates_to block
\* is rejected with MissingRelation.
C9_MissingRelation ==
    /\ NewSetsRelation
    /\ (pc = "poll_de" /\ ~HasKey(pollJson, RelatesToKey)) => pollOut = MissingRelation

\* C9 (amended): new is as claimed; content without the m.relates_to block never
\* deserializes to a value, and the error is the missing m.relates_to when the
\* selections are present and are a list of strings; without them the error is
\* about the selections.
C9_RelationRequired ==
    /\ NewSetsRelation
    /\ (pc = "poll_de" /\ ~HasKey(pollJson, RelatesToKey)) =>
        /\ ~pollOut.ok
        /\ (/\ HasKey(pollJson, SelectionsKey)
            /\ IsStrArray(ValueAt(pollJson, SelectionsKey))) <=> pollOut = MissingRelation
        /\ ~HasKey(pollJson, SelectionsKey) =>
            pollOut = DeError("missing field", SelectionsKey)

\* C9 witness: content with selections and without m.relates_to was rejected
\* for the missing relation.
C9_Witness ==
    /\ pc = "poll_de"
    /\ HasKey(pollJson, SelectionsKey)
    /\ ~HasKey(pollJson, RelatesToKey)
    /\ pollOut = MissingRelation

(***************************************************************************)
(* Claims about MxcUri                                                     *)
(***************************************************************************)

\* What follows the scheme, and the true split of it at its first slash.
AfterScheme(uri) == SubSeq(uri, SchemeLen + 1, Len(uri))
TrueServer(uri) == SubSeq(AfterScheme(uri), 1, Find(AfterScheme(uri), "/") - 1)
TrueMedia(uri) ==
    SubSeq(AfterScheme(uri), Find(AfterScheme(uri), "/") + 1, Len(AfterScheme(uri)))

\* C2 (as claimed): for every string validation accepts, parts() returns the
\* server name between the scheme and the first slash after it, a valid
\* ServerName, and everything after that slash as the media id, so that
\* mxc:// + server + / + media is the string; server_name() and media_id() return
\* those two components.
C2_PartsSplitAtFirstSlash ==
    (pc \in {"mxc_parts", "mxc_server_name", "mxc_media_id"} /\ validate(mxc).ok) =>
        /\ ServerNameValid(TrueServer(mxc))
        /\ Scheme \o TrueServer(mxc) \o <<"/">> \o TrueMedia(mxc) = mxc
        /\ pc = "mxc_parts" =>
            mxcOut = [ok |-> TRUE, server |-> TrueServer(mxc), media |-> TrueMedia(mxc)]
        /\ pc = "mxc_server_name" => mxcOut = [ok |-> TRUE, server |-> TrueServer(mxc)]
        /\ pc = "mxc_media_id" => mxcOut = [ok |-> TRUE, media |-> TrueMedia(mxc)]

\* C2 witness of the failure: validate() accepted the string and parts()
\* panicked.
C2_Witness ==
    /\ pc = "mxc_parts"
    /\ validate(mxc) = OkUnit
    /\ mxcOut = Panic

\* C3: a string that starts with the scheme and has no slash after it fails
\* validate() and parts() with MissingSlash and is not valid; a string that lacks
\* the scheme is never valid, whatever follows.
C3_MissingSlashAndScheme ==
    pc \in {"mxc_validate", "mxc_parts", "mxc_is_valid"} =>
        /\ (StartsWith(mxc, Scheme) /\ Find(AfterScheme(mxc), "/") = 0) =>
            /\ pc \in {"mxc_validate", "mxc_parts"} => mxcOut = Err("MissingSlash")
            /\ pc = "mxc_is_valid" => mxcOut = [bool |-> FALSE]
        /\ ~StartsWith(mxc, Scheme) =>
            /\ pc \in {"mxc_validate", "mxc_parts"} => ~mxcOut.ok
            /\ pc = "mxc_is_valid" => mxcOut = [bool |-> FALSE]

\* C3 witness: is_valid() was called on a string with the scheme, a server name
\* and no slash.
C3_Witness ==
    /\ pc = "mxc_is_valid"
    /\ mxc = Scheme \o <<"1", ".", "1">>
    /\ mxcOut = [bool |-> FALSE]

\* The calls on an MxcUri that end in a Result.
MxcResultCalls == {"mxc_validate", "mxc_parts", "mxc_server_name", "mxc_media_id"}

\* C21 (as claimed): no call on an MxcUri panics; for every string validation
\* accepts, parts() splits at the true position of the first slash after the
\* scheme, also when the server name is so long that this position is above
\* 255, more than the NonZeroU8 that carries it can hold; for every string
\* validation rejects, validate(), parts(), server_name() and media_id() return
\* the same error and is_valid() is false.
C21_SplitAtTruePosition ==
    pc \in MxcResultCalls \cup {"mxc_is_valid"} =>
        /\ mxcOut # Panic
        /\ validate(mxc) # Panic
        /\ (pc = "mxc_parts" /\ validate(mxc).ok) =>
            mxcOut = [ok |-> TRUE, server |-> TrueServer(mxc), media |-> TrueMedia(mxc)]
        /\ (pc \in MxcResultCalls /\ ~validate(mxc).ok) => mxcOut = validate(mxc)
        /\ (pc = "mxc_is_valid" /\ ~validate(mxc).ok) => mxcOut = [bool |-> FALSE]

\* C21 witness of the failure: the first slash of an accepted string lies
\* above 255 and parts() returned, without a panic, a pair that is not the
\* split at that slash.
C21_Witness ==
    /\ pc = "mxc_parts"
    /\ validate(mxc) = OkUnit
    /\ SchemeLen + Find(AfterScheme(mxc), "/") - 1 >= U8Range
    /\ mxcOut.ok
    /\ mxcOut.server # TrueServer(mxc)
    /\ mxcOut.media # TrueMedia(mxc)

(***************************************************************************)
(* Claims about the identifiers                                            *)
(***************************************************************************)

\* The MxcUri grammar, stated on the string.
MxcGrammarValid(uri) ==
    /\ StartsWith(uri, Scheme)
    /\ Find(AfterScheme(uri), "/") # 0
    /\ ServerNameValid(TrueServer(uri))

C11_EmptyDeviceId ==
    /\ pc = "device_from"
    /\ as_str(deviceId) = <<>>

\* C18: every DeviceId::new() returns an id of exactly 8 characters, hence a
\* non-empty one, whatever the random source produces.
C18_NewDeviceIdHasEightChars ==
    pc = "device_new" =>
        /\ Len(as_str(deviceId)) = 8
        /\ as_str(deviceId) # <<>>

\* C18 witness: new() returned an id of mixed characters.
C18_Witness ==
    /\ pc = "device_new"
    /\ as_str(deviceId) = <<"a", "Z", "7", "a", "Z", "7", "a", "Z">>

(***************************************************************************)
(* Claims about Base64                                                     *)
(***************************************************************************)

\* The 6-bit value of a symbol of either alphabet.
CharValue(char) ==
    IF char \in {"+", "-"} THEN 62
    ELSE IF char \in {"/", "_"} THEN 63
    ELSE ValueOf(AlphaNum, char)

\* The unused bits the last symbol of an unpadded encoding carries.
UnusedBits(text) ==
    IF Len(text) % 4 = 2 THEN CharValue(text[Len(text)]) % 16
    ELSE IF Len(text) % 4 = 3 THEN CharValue(text[Len(text)]) % 4
    ELSE 0

\* C12: for every byte sequence b, parse(new(b).encode()) succeeds and holds
\* exactly b (as_bytes and into_inner return b); encode never emits the padding
\* character, and the empty value encodes to the empty string.
C12_EncodeParseRoundTrip ==
    /\ pc \in {"b64_encoded", "b64_back"} =>
        /\ ~Contains(b64Text, "=")
        /\ Len(b64Text) = (Len(b64.bytes) * 8 + 5) \div 6
        /\ b64.bytes = <<>> => b64Text = <<>>
        /\ b64.value = Base64Empty => b64Text = <<>>
        /\ b64.bytes = <<0, 1>> => b64Text = <<"A", "A", "E">>
    /\ pc = "b64_back" =>
        /\ b64Out.ok
        /\ as_bytes(b64Out.val) = b64.bytes
        /\ into_inner(b64Out.val) = b64.bytes

\* C12 witness: three bytes were encoded and parsed back.
C12_Witness ==
    /\ pc = "b64_back"
    /\ b64.bytes = <<0, 1, 255>>
    /\ b64Text = <<"A", "A", "H", "/">>
    /\ b64Out.ok
    /\ as_bytes(b64Out.val) = <<0, 1, 255>>

C14_AlphabetByConfiguration ==
    /\ pc = "b64_encoded" =>
        \A i \in 1..Len(b64Text) :
            /\ b64.C = "Standard" => b64Text[i] \notin {"-", "_"}
            /\ b64.C = "UrlSafe" => b64Text[i] \notin {"+", "/"}
    /\ pc = "b64_parsed" =>
        /\ (b64.C = "Standard" /\ \E i \in 1..Len(b64In) : b64In[i] \in {"-", "_"})
            => ~b64Out.ok
        /\ (b64.C = "UrlSafe" /\ \E i \in 1..Len(b64In) : b64In[i] \in {"+", "/"})
            => ~b64Out.ok

\* C14 witness of the failure: under UrlSafe the bytes 251, 255 were encoded with
\* the symbols of the standard alphabet.
C14_Witness ==
    /\ pc = "b64_encoded"
    /\ b64.C = "UrlSafe"
    /\ b64.bytes = <<251, 255>>
    /\ b64Text = <<"+", "/", "8">>

(***************************************************************************)
(* Further claims about m.key.verification.start                           *)
(***************************************************************************)

\* C17 (as claimed): for every init whose key_agreement_protocols does not
\* include Curve25519, new returns InvalidInput, whatever else the list holds.
C17_Curve25519Required ==
    (pc = "sas_new" /\ ~Contains(sasInit.key_agreement_protocols, Curve25519)) =>
        /\ ~sasResult.ok
        /\ sasResult.err = "InvalidInput"

\* C17 witness of the failure: an init whose only key agreement protocol is
\* Curve25519HkdfSha256 was accepted.
C17_Witness ==
    /\ pc = "sas_new"
    /\ sasInit.key_agreement_protocols = <<Curve25519HkdfSha256>>
    /\ sasResult.ok
    /\ sasResult.val.key_agreement_protocols = <<Curve25519HkdfSha256>>

\* Whether the object has the field as an array of strings.
HasList(obj, field) == Has(obj, field) /\ IsStrArray(obj[field])

\* C19: content whose method is m.sas.v1 and which lacks one of the four lists,
\* or has one of a wrong type, does not fail deserialization: it becomes
\* StartMethod::Custom with method m.sas.v1 and the remaining keys in fields.
C19_MalformedSasBecomesCustom ==
    (/\ pc \in {"start_de", "start_ser"}
     /\ Has(startJson, "from_device")
     /\ Has(startJson, "method")
     /\ startJson["method"] = JStr("m.sas.v1")
     /\ \E i \in 1..4 : ~HasList(startJson, ListFields[i])) =>
        /\ startOut.ok
        /\ startOut.val.method.variant = "Custom"
        /\ startOut.val.method.content.method = "m.sas.v1"
        /\ startOut.val.method.content.fields
            = Without(startJson, {"from_device", "transaction_id", "method"})

\* C19 witness: m.sas.v1 content without hashes was read as Custom.
C19_Witness ==
    /\ pc = "start_de"
    /\ Has(startJson, "method")
    /\ startJson["method"] = JStr("m.sas.v1")
    /\ Has(startJson, "key_agreement_protocols")
    /\ ~Has(startJson, "hashes")
    /\ startOut.ok
    /\ startOut.val.method.variant = "Custom"
    /\ startOut.val.method.content.method = "m.sas.v1"
    /\ Has(startOut.val.method.content.fields, "key_agreement_protocols")

\* The place (1 to 4) of the first unmet field of an init that has one.
FirstUnmet(init) == Min({i \in 1..4 : ListFields[i] \in UnmetFields(init)})

\* C20: when several minimums are unmet, try_from reports exactly one
\* InvalidInput, naming the first unmet field in the order
\* key_agreement_protocols, hashes, message_authentication_codes,
\* short_authentication_string; the later unmet fields are not named.
C20_FirstUnmetFieldReported ==
    (pc = "sas_new" /\ Cardinality(UnmetFields(sasInit)) >= 2) =>
        /\ ~sasResult.ok
        /\ sasResult.err = "InvalidInput"
        /\ Contains(sasResult.msg, ListFields[FirstUnmet(sasInit)])
        /\ \A i \in 1..4 :
            i # FirstUnmet(sasInit) => ~Contains(sasResult.msg, ListFields[i])

\* C20 witness: an init with hashes and short_authentication_string unmet was
\* rejected for its hashes.
C20_Witness ==
    /\ pc = "sas_new"
    /\ UnmetFields(sasInit) = {"hashes", "short_authentication_string"}
    /\ ~sasResult.ok
    /\ sasResult.msg = MsgHashes

(***************************************************************************)
(* Claims about m.room.redaction                                           *)
(***************************************************************************)

\* C15: a serialized RedactionEvent is an envelope of type m.room.redaction
\* with the redacted event's id under the top-level key redacts, a content that
\* holds only reason, the keys event_id, sender, origin_server_ts and room_id,
\* and no unsigned key when unsigned is empty; deserializing it as
\* AnyMessageEvent gives the RoomRedaction variant with every field as it was.
C15_RedactionEnvelope ==
    /\ pc = "redaction_ser" =>
        /\ DOMAIN redactionJson \ {"unsigned"} = RedactionKeys \cup {"type"}
        /\ redactionJson["type"] = JStr("m.room.redaction")
        /\ redactionJson["redacts"] = JStr(redaction.redacts)
        /\ redactionJson["content"].t = "obj"
        /\ DOMAIN redactionJson["content"].o \subseteq {"reason"}
        /\ Has(redactionJson["content"].o, "reason") <=> redaction.content.reason # None
        /\ redactionJson["event_id"] = JStr(redaction.event_id)
        /\ redactionJson["sender"] = JStr(redaction.sender)
        /\ redactionJson["origin_server_ts"] = JNum(redaction.origin_server_ts)
        /\ redactionJson["room_id"] = JStr(redaction.room_id)
        /\ Has(redactionJson, "unsigned") <=> ~UnsignedIsEmpty(redaction.unsigned)
    /\ (pc = "redaction_de" /\ redactionJson["type"] = JStr("m.room.redaction")) =>
        /\ redactionOut.ok
        /\ redactionOut.val.variant = "RoomRedaction"
        /\ redactionOut.val.event = redaction
    /\ (pc = "redaction_de" /\ redactionJson["type"] # JStr("m.room.redaction")) =>
        ~(redactionOut.ok /\ redactionOut.val.variant = "RoomRedaction")

\* C15 witness: the event of the test was serialized and read back as
\* RoomRedaction.
C15_Witness ==
    /\ pc = "redaction_de"
    /\ redaction.redacts = "$nomore:example.com"
    /\ redaction.content.reason = Some("being a turd")
    /\ UnsignedIsEmpty(redaction.unsigned)
    /\ ~Has(redactionJson, "unsigned")
    /\ redactionJson["redacts"] = JStr("$nomore:example.com")
    /\ redactionOut.ok
    /\ redactionOut.val.variant = "RoomRedaction"
    /\ redactionOut.val.event = redaction

(***************************************************************************)
(* Claims about ruma-client                                                *)
(***************************************************************************)

\* The result a finished call must carry for what the transport resolved to.
ResultMirrorsTransport ==
    IF httpSends = 0 THEN httpResult.err = "IntoHttp" /\ ~httpResult.decoded
    ELSE IF httpTransport.kind = "error"
        THEN ~httpResult.ok /\ httpResult.err = "Response" /\ ~httpResult.decoded
    ELSE IF httpTransport.status >= 400
        THEN /\ ~httpResult.ok
             /\ httpResult.err = "FromHttpResponse"
             /\ httpResult.status = httpTransport.status
    ELSE httpResult.ok /\ httpResult.decoded

\* C16: within one call of send_request or send_request_with_url_params the
\* transport's send_http_request is awaited at most once; the send happens
\* only with an encoded request in hand and before any response is decoded;
\* once the transport has resolved, be it with a transport error or an error
\* response, the call ends with that as its result and sends nothing more.
C16_SendAwaitedAtMostOnce ==
    /\ [](/\ httpSends <= 1
          /\ pc = "http_awaiting" => (httpSends = 1 /\ httpResult = None)
          /\ pc = "http_done" => ResultMirrorsTransport)
    /\ [][httpSends' > httpSends =>
            /\ pc = "knock_enc" /\ knockWire.ok
            /\ httpSends = 0
            /\ httpResult = None
            /\ pc' = "http_awaiting"]_vars
    /\ [][pc = "http_awaiting" => pc' \in {"http_done", "idle"}]_vars
    /\ [][pc = "http_done" => pc' = "idle"]_vars

\* C16 witness: a call whose one send ended in a transport error has returned
\* that error.
C16_Witness ==
    /\ pc = "http_done"
    /\ httpSends = 1
    /\ httpTransport = [kind |-> "error", status |-> 0]
    /\ ~httpResult.ok
    /\ httpResult.err = "Response"

=============================================================================
